---- MODULE Spec2Model ----
(***************************************************************************)
(* A model of sio_asyncapi's AsyncAPIDoc (asyncapi/docs.py): the document  *)
(* tables, the builder operations that fill them, pointer resolution, and  *)
(* the type rewriter with its two process-wide caches.                     *)
(*                                                                         *)
(* Python strings are sequences of one-character strings, so that          *)
(* replace, startswith, slicing, split and title are computed character    *)
(* by character.  An Optional value is a sequence of length 0 (None) or 1. *)
(***************************************************************************)
EXTENDS Integers, Sequences, FiniteSets, TLC

VARIABLES
    servers, channels, operations, schemas, messages, tags,  \* the document
    peewee, dc_cache, ref_cache, next_uid,                   \* the interpreter
    last,       \* the last call: its name, arguments, outcome and return value
    calls,      \* how many calls of each bounded kind were made
    clean,      \* no builder call has raised so far
    tag_calls,  \* the add_global_tag calls so far, in order
    rewrites    \* the top-level rewrite_type calls so far, with their results

vars == <<servers, channels, operations, schemas, messages, tags,
          peewee, dc_cache, ref_cache, next_uid, last, calls, clean, tag_calls, rewrites>>

cache_vars == <<peewee, dc_cache, ref_cache, next_uid>>

----------------------------------------------------------------------------
(* Bounds of the model.                                                    *)

\* successful add_channel calls are bounded by the channel ids on offer;
\* these bound the other mutating calls of one run
MaxEvents == 2

MaxLegacy == 1

MaxComponents == 1

MaxTagCalls == 4

MaxRewrites == 3

\* depth at which the interpreter gives up a recursion (RecursionError)
MaxDepth == 6

----------------------------------------------------------------------------
(* Strings.                                                                *)

None == <<>>

Some(x) == <<x>>

IsNone(o) == Len(o) = 0

\* Python truthiness of an Optional[str] / Optional[list]: None and the empty
\* value are both falsy
Truthy(o) == Len(o) = 1 /\ Len(o[1]) > 0

LowerOf == [A |-> "a", B |-> "b", C |-> "c", K |-> "k", M |-> "m", N |-> "n",
            O |-> "o", P |-> "p", T |-> "t", X |-> "x"]

UpperOf == [a |-> "A", b |-> "B", c |-> "C", k |-> "K", m |-> "M", n |-> "N",
            o |-> "O", p |-> "P", t |-> "T", x |-> "X"]

IsUpper(ch) == ch \in DOMAIN LowerOf

IsLower(ch) == ch \in DOMAIN UpperOf \/ ch \in {"d", "e", "g", "h", "i", "l", "r", "s", "u", "y"}

IsCased(ch) == IsUpper(ch) \/ IsLower(ch)

ToLower(ch) == IF IsUpper(ch) THEN LowerOf[ch] ELSE ch

ToUpper(ch) == IF ch \in DOMAIN UpperOf THEN UpperOf[ch] ELSE ch

\* str.lower()
lower(s) == [i \in 1..Len(s) |-> ToLower(s[i])]

\* str.title(): a cased character is upper-cased when it follows an uncased
\* one (or starts the string) and lower-cased otherwise
title(s) ==
    [i \in 1..Len(s) |->
        IF ~IsCased(s[i]) THEN s[i]
        ELSE IF i = 1 \/ ~IsCased(s[i - 1]) THEN ToUpper(s[i])
        ELSE ToLower(s[i])]

\* str.replace(ch, "")
remove(s, ch) == SelectSeq(s, LAMBDA c : c # ch)

startswith(s, p) == Len(s) >= Len(p) /\ SubSeq(s, 1, Len(p)) = p

\* s[n:]
drop(s, n) == SubSeq(s, n + 1, Len(s))

\* s[:-1] of a list
butlast(s) == SubSeq(s, 1, Len(s) - 1)

RECURSIVE split(_, _)
\* str.split(sep) for a one-character separator: always at least one part
split(s, sep) ==
    IF \A i \in 1..Len(s) : s[i] # sep THEN <<s>>
    ELSE LET k == CHOOSE i \in 1..Len(s) : s[i] = sep /\ \A j \in 1..(i - 1) : s[j] # sep
         IN <<SubSeq(s, 1, k - 1)>> \o split(drop(s, k), sep)

s_hash == <<"#">>
s_slash == <<"/">>
s_on == <<"o", "n", "_">>
s_Ack == <<"A", "c", "k">>
s_ack == <<"_", "a", "c", "k">>
s_Payload == <<"P", "a", "y", "l", "o", "a", "d">>
s_Schema == <<"S", "c", "h", "e", "m", "a">>
s_UUIDRef == <<"U", "U", "I", "D", "R", "e", "f">>
s_return == <<"r", "e", "t", "u", "r", "n">>
s_info == <<"i", "n", "f", "o">>
s_servers == <<"s", "e", "r", "v", "e", "r", "s">>
s_channels == <<"c", "h", "a", "n", "n", "e", "l", "s">>
s_operations == <<"o", "p", "e", "r", "a", "t", "i", "o", "n", "s">>
s_components == <<"c", "o", "m", "p", "o", "n", "e", "n", "t", "s">>
s_schemas == <<"s", "c", "h", "e", "m", "a", "s">>
s_messages == <<"m", "e", "s", "s", "a", "g", "e", "s">>
s_keys == <<"k", "e", "y", "s">>
s_securitySchemes == <<"s", "e", "c", "u", "r", "i", "t", "y", "S", "c", "h", "e", "m", "e", "s">>
s_NoSpec == <<"N", "o", "S", "p", "e", "c">>
s_BACKEND == <<"B", "A", "C", "K", "E", "N", "D">>
s_receive == <<"r", "e", "c", "e", "i", "v", "e">>
s_send == <<"s", "e", "n", "d">>
s_success == <<"s", "u", "c", "c", "e", "s", "s">>
s_error == <<"e", "r", "r", "o", "r">>
s_data == <<"d", "a", "t", "a">>

\* "/".join-free path building: "/a/b/c" from <<a, b, c>>
RECURSIVE path(_)
path(segs) == IF segs = <<>> THEN <<>> ELSE s_slash \o Head(segs) \o path(Tail(segs))

----------------------------------------------------------------------------
(* Type descriptors.  One record shape for every type:                     *)
(* (args: the type arguments of a generic; fields: <<name, type>> pairs)   *)
(*   leaf       a type with no origin that is neither dataclass nor model  *)
(*   dataclass  a dataclass, by class name (fields in DataclassHints)      *)
(*   peewee     a peewee.Model subclass, by class name                     *)
(*   generic    origin[args]                                               *)
(*   model      a class made by create_model: name, fields, identity uid   *)
(*   uuidref    a PeeweeUUIDRef class made by peewee_uuid_ref              *)

Leaf(n) == [kind |-> "leaf", origin |-> "", name |-> n, args |-> <<>>, fields |-> <<>>, uid |-> 0]

Dataclass(c) == [kind |-> "dataclass", origin |-> "", name |-> c, args |-> <<>>, fields |-> <<>>, uid |-> 0]

Peewee(c) == [kind |-> "peewee", origin |-> "", name |-> c, args |-> <<>>, fields |-> <<>>, uid |-> 0]

Generic(o, a) ==
    [kind |-> "generic", origin |-> o, name |-> <<>>, args |-> a, fields |-> <<>>, uid |-> 0]

t_str == Leaf(<<"s", "t", "r">>)
t_int == Leaf(<<"i", "n", "t">>)
t_bool == Leaf(<<"b", "o", "o", "l">>)
t_None == Leaf(<<"N", "o", "n", "e", "T", "y", "p", "e">>)
t_Any == Leaf(<<"A", "n", "y">>)
t_Ellipsis == Leaf(<<".", ".", ".">>)

c_Point == <<"P", "t">>
c_Line == <<"L", "n">>
c_Node == <<"N", "d">>
c_User == <<"U", "s">>
c_Box == <<"B", "x">>

\* get_type_hints of the dataclasses of the run, in dataclasses.fields order:
\*   Pt(x: int, y: int)   Ln(a: Pt, b: List[Pt])   Nd(v: int, nx: Optional[Nd])
\*   Bx(p: Optional[Pt], q: Tuple[Pt, ...], d: Dict[str, Pt], s: Set[int])
DataclassHints(c) ==
    CASE c = c_Point -> << <<<<"x">>, t_int>>, <<<<"y">>, t_int>> >>
      [] c = c_Line -> << <<<<"a">>, Dataclass(c_Point)>>,
                          <<<<"b">>, Generic("list", <<Dataclass(c_Point)>>)>> >>
      [] c = c_Node -> << <<<<"v">>, t_int>>,
                          <<<<"n", "x">>, Generic("Union", <<Dataclass(c_Node), t_None>>)>> >>
      [] c = c_Box -> << <<<<"p">>, Generic("Union", <<Dataclass(c_Point), t_None>>)>>,
                         <<<<"q">>, Generic("tuple", <<Dataclass(c_Point), t_Ellipsis>>)>>,
                         <<<<"d">>, Generic("dict", <<t_str, Dataclass(c_Point)>>)>>,
                         <<<<"s">>, Generic("set", <<t_int>>)>> >>

\* create_model(name, **fields): a new class on every call
create_model(name, fields, uid) ==
    [kind |-> "model", origin |-> "", name |-> name, args |-> <<>>, fields |-> fields,
     uid |-> uid]

RECURSIVE dedupe(_)
dedupe(ts) ==
    IF ts = <<>> THEN <<>>
    ELSE <<Head(ts)>> \o dedupe(SelectSeq(Tail(ts), LAMBDA t : t # Head(ts)))

RECURSIVE flatten(_)
flatten(ts) ==
    IF ts = <<>> THEN <<>>
    ELSE (IF Head(ts).kind = "generic" /\ Head(ts).origin = "Union"
          THEN Head(ts).args ELSE <<Head(ts)>>) \o flatten(Tail(ts))

\* typing.Union[args]: nested unions flattened, duplicates dropped, a single
\* member is that member
UnionOf(ts) ==
    LET m == dedupe(flatten(ts))
    IN IF Len(m) = 1 THEN m[1] ELSE Generic("Union", m)

rebuild_container_as_list(origin, args) == Some(Generic("list", <<args[1]>>))

\* rebuild_container(origin, args); None when the origin is not a container
rebuild_container(origin, args) ==
    CASE origin = "list" -> Some(Generic("list", <<args[1]>>))
      [] origin = "set" -> Some(Generic("set", <<args[1]>>))
      [] origin = "dict" -> Some(Generic("dict", <<args[1], args[2]>>))
      [] origin = "tuple" ->
            IF Len(args) = 2 /\ args[2] = t_Ellipsis
            THEN Some(Generic("tuple", <<args[1], t_Ellipsis>>))
            ELSE Some(Generic("tuple", args))
      [] OTHER -> None

\* The interpreter state the rewriter reads and writes: whether peewee was
\* importable, _dc_cache, _ref_cache, and the identity of the next class made.
CacheState(pw, dc, rf, nx) == [peewee |-> pw, dc |-> dc, rf |-> rf, next |-> nx]

Returned(t, st) == [ok |-> TRUE, tp |-> t, st |-> st]

Raised(st) == [ok |-> FALSE, tp |-> t_None, st |-> st]

\* peewee_uuid_ref(model_cls)
peewee_uuid_ref(tp, st) ==
    IF tp.name \in DOMAIN st.rf THEN Returned(st.rf[tp.name], st)
    ELSE IF ~(st.peewee /\ tp.kind = "peewee") THEN Returned(tp, st)
    ELSE LET R == [kind |-> "uuidref", origin |-> "", name |-> tp.name \o s_UUIDRef,
                   args |-> <<>>, fields |-> <<>>, uid |-> st.next]
         IN Returned(R, [st EXCEPT !.rf = [c \in DOMAIN st.rf \cup {tp.name} |->
                                              IF c = tp.name THEN R ELSE st.rf[c]],
                                   !.next = st.next + 1])

not_in_dc_cache(st, tp) == FALSE

\* `tp in _dc_cache`
in_dc_cache(st, tp) == tp.name \in DOMAIN st.dc

RECURSIVE rewrite_type(_, _, _)
RECURSIVE rewrite_fields(_, _, _)
RECURSIVE rewrite_args(_, _, _)

\* rewrite_type(tp) at recursion depth d; raises (RecursionError) beyond MaxDepth
rewrite_type(tp, st, d) ==
    IF d > MaxDepth THEN Raised(st)
    ELSE IF st.peewee /\ tp.kind = "peewee" THEN peewee_uuid_ref(tp, st)
    ELSE IF tp.kind = "dataclass" THEN
        IF in_dc_cache(st, tp) THEN Returned(st.dc[tp.name], st)
        ELSE LET f == rewrite_fields(DataclassHints(tp.name), st, d + 1)
             IN IF ~f.ok THEN Raised(f.st)
                ELSE LET M == create_model(tp.name \o s_Schema, f.tp, f.st.next)
                     IN Returned(M, [f.st EXCEPT
                            !.dc = [c \in DOMAIN f.st.dc \cup {tp.name} |->
                                       IF c = tp.name THEN M ELSE f.st.dc[c]],
                            !.next = f.st.next + 1])
    ELSE IF tp.kind # "generic" THEN Returned(tp, st)
    ELSE LET a == rewrite_args(tp.args, st, d + 1)
         IN IF ~a.ok THEN Raised(a.st)
            ELSE IF tp.origin = "Union" THEN Returned(UnionOf(a.tp), a.st)
            ELSE LET rebuilt == rebuild_container(tp.origin, a.tp)
                 IN IF ~IsNone(rebuilt) THEN Returned(rebuilt[1], a.st)
                    ELSE Returned(tp, a.st)

\* the loop over dataclasses.fields(tp): each annotation rewritten in order
rewrite_fields(fs, st, d) ==
    IF fs = <<>> THEN [ok |-> TRUE, tp |-> <<>>, st |-> st]
    ELSE LET h == rewrite_type(Head(fs)[2], st, d)
         IN IF ~h.ok THEN [ok |-> FALSE, tp |-> <<>>, st |-> h.st]
            ELSE LET r == rewrite_fields(Tail(fs), h.st, d)
                 IN [ok |-> r.ok, tp |-> << <<Head(fs)[1], h.tp>> >> \o r.tp, st |-> r.st]

\* tuple(rewrite_type(a) for a in get_args(tp))
rewrite_args(as, st, d) ==
    IF as = <<>> THEN [ok |-> TRUE, tp |-> <<>>, st |-> st]
    ELSE LET h == rewrite_type(Head(as), st, d)
         IN IF ~h.ok THEN [ok |-> FALSE, tp |-> <<>>, st |-> h.st]
            ELSE LET r == rewrite_args(Tail(as), h.st, d)
                 IN [ok |-> r.ok, tp |-> <<h.tp>> \o r.tp, st |-> r.st]

----------------------------------------------------------------------------
(* The document.                                                           *)
(*   servers     name -> server (set by default_init, never written again) *)
(*   channels    id -> ChannelItem                                         *)
(*   operations  id -> Operation                                           *)
(*   schemas     components.schemas: name -> schema dict                   *)
(*   messages    components.messages: name -> Message                      *)
(*   tags        info.tags                                                 *)
(* Free text (descriptions, summaries, hosts) is a one-element string      *)
(* whose single element stands for the whole text.                         *)

EmptyMap == [k \in {} |-> None]

Put(f, k, v) == [x \in DOMAIN f \cup {k} |-> IF x = k THEN v ELSE f[x]]

\* Python truthiness of an Optional[dict]
TruthyMap(o) == ~IsNone(o) /\ DOMAIN o[1] # {}

Doc(sv, ch, sc, ms, op) ==
    [servers |-> sv, channels |-> ch, schemas |-> sc, messages |-> ms, operations |-> op]

\* the value of default_components["schemas"]["NoSpec"]
NoSpecSchema ==
    [title |-> None, description |-> Some(<<"Specification is not provided">>),
     properties |-> <<>>]

\* Model.schema(): the class name as title, one property per field
schema_of(model) == [title |-> Some(model.name), description |-> None, properties |-> model.fields]

\* AsyncAPIDoc.sanitize_id
sanitize_id(id) == remove(id, "/")

\* AsyncAPIDoc.make_ref: the pointer of a Reference
make_ref(p) == s_hash \o p

\* the state default_init leaves
default_init ==
    /\ servers = [n \in {s_BACKEND} |->
                    [host |-> <<"http://localhost:5000">>, protocol |-> <<"socketio">>]]
    /\ channels = EmptyMap
    /\ operations = EmptyMap
    /\ schemas = [n \in {s_NoSpec} |-> NoSpecSchema]
    /\ messages = EmptyMap
    /\ tags = <<>>

Outcome(o, d, st) == [outcome |-> o, doc |-> d, st |-> st]

\* AsyncAPIDoc.add_channel(id, address, title, summary, description, servers)
\* on the channels table; a = the arguments
add_channel_overwrites(chs, a) ==
    LET id == sanitize_id(a.id)
    IN [outcome |-> "ok",
        channels |-> Put(chs, id,
            [address |-> IF ~Truthy(a.address) THEN a.id ELSE a.address[1],
             title |-> IF Truthy(a.title) THEN a.title[1] ELSE title(id),
             summary |-> a.summary,
             description |-> a.description,
             servers |-> None,
             messages |-> None])]

add_channel(chs, a) ==
    LET address == IF ~Truthy(a.address) THEN a.id ELSE a.address[1]
        id == sanitize_id(a.id)
    IN IF id \notin DOMAIN chs
       THEN [outcome |-> "ok",
             channels |-> Put(chs, id,
                [address |-> address,
                 title |-> IF Truthy(a.title) THEN a.title[1] ELSE title(id),
                 summary |-> a.summary,
                 description |-> a.description,
                 servers |-> IF Truthy(a.servers)
                             THEN Some([i \in 1..Len(a.servers[1]) |->
                                          make_ref(path(<<s_servers, a.servers[1][i]>>))])
                             ELSE None,
                 messages |-> None])]
       ELSE [outcome |-> "Exception: Channel already exists", channels |-> chs]

----------------------------------------------------------------------------
(* add_event.                                                              *)

\* the string "NotProvided", which the model arguments also accept
NotProvided ==
    [kind |-> "literal", origin |-> "", name |-> <<"NotProvided">>, args |-> <<>>,
     fields |-> <<>>, uid |-> 0]

schema_ref(name) == make_ref(path(<<s_components, s_schemas, name>>))

message_ref(channel, id) == make_ref(path(<<s_channels, channel, s_messages, id>>))

tag_list(tgs) == IF Truthy(tgs) THEN Some([i \in 1..Len(tgs[1]) |-> [name |-> tgs[1][i]]]) ELSE None

HasReturn(hints) == \E i \in 1..Len(hints) : hints[i][1] = s_return

ReturnType(hints) == hints[CHOOSE i \in 1..Len(hints) : hints[i][1] = s_return][2]

\* id with the leading "on_" of the handler convention dropped
event_id(id) == IF startswith(lower(id), s_on) THEN drop(id, 3) ELSE id

\* the name prefix of the schemas synthesized for an event
payload_prefix(id) == remove(title(id), "_")

ack_fields_without_error(rt) == << <<s_success, t_bool>>, <<s_data, rt>> >>

\* The ack fields of a synthesized ack model
ack_fields(rt) ==
    << <<s_success, t_bool>>, <<s_error, Generic("Union", <<t_Any, t_None>>)>>, <<s_data, rt>> >>

\* What the `if handler:` block leaves: the names, and the models still to
\* register.  raised: an exception left the block.
Introspected(raised, name, description, pm, am, ack_title, st) ==
    [raised |-> raised, name |-> name, description |-> description, payload_model |-> pm,
     ack_data_model |-> am, ack_title |-> ack_title, st |-> st]

\* lines 293-301: the ack model from the return hint; r = the rewritten
\* return type.  A failure inside the try is printed and the ack left out.
synthesize_ack(a, id, h, name, description, pm, r) ==
    IF ~r.ok
    THEN Introspected(FALSE, name, description, pm, None,
                      Some(payload_prefix(id) \o s_Ack), r.st)
    ELSE Introspected(FALSE, name, description, pm,
                      Some(create_model(payload_prefix(id) \o s_Ack, ack_fields(r.tp),
                                        r.st.next)),
                      Some(payload_prefix(id) \o s_Ack),
                      [r.st EXCEPT !.next = r.st.next + 1])

\* lines 286-293: pm = the payload model after the first try, st1 = the
\* interpreter state after it
after_payload(a, id, h, name, description, pm, st1) ==
    IF HasReturn(h.hints) /\ IsNone(a.ack_data_model) /\ ReturnType(h.hints) # t_None
    THEN synthesize_ack(a, id, h, name, description, pm,
                        rewrite_type(ReturnType(h.hints), st1, 1))
    ELSE Introspected(FALSE, name, description, pm, a.ack_data_model, None, st1)

\* lines 276-291: f = the rewritten parameter hints (the loop is outside any try)
with_handler(a, id, h, name, description, f) ==
    IF ~f.ok
    THEN Introspected(TRUE, name, description, a.payload_model, a.ack_data_model, None, f.st)
    ELSE IF IsNone(a.payload_model)
    THEN after_payload(a, id, h, name, description,
                       Some(create_model(payload_prefix(id) \o s_Payload, f.tp, f.st.next)),
                       [f.st EXCEPT !.next = f.st.next + 1])
    ELSE after_payload(a, id, h, name, description, a.payload_model, f.st)

\* The `if handler:` block of add_event
introspect(a, id, st) ==
    IF IsNone(a.handler)
    THEN Introspected(FALSE, a.name, a.description, a.payload_model, a.ack_data_model,
                      None, st)
    ELSE with_handler(a, id, a.handler[1],
                      IF ~Truthy(a.name) THEN Some(a.handler[1].name) ELSE a.name,
                      IF ~Truthy(a.description) THEN a.handler[1].doc ELSE a.description,
                      rewrite_fields(butlast(a.handler[1].hints), st, 1))

never_registered(msgs, id) == FALSE

\* is a message with this id already in the channel's table
already_registered(msgs, id) == id \in DOMAIN msgs

\* components.schemas[model.__name__] = model.schema(), for a model class
register_model(d, m) ==
    IF ~IsNone(m) /\ m[1].kind = "model"
    THEN [d EXCEPT !.schemas = Put(d.schemas, m[1].name, schema_of(m[1]))]
    ELSE d

set_messages(d, channel, msgs) == [d EXCEPT !.channels[channel].messages = Some(msgs)]

message_name(i, id) == IF ~Truthy(i.name) THEN id ELSE i.name[1]

message_title(a, i, id) == IF ~Truthy(a.title) THEN message_name(i, id) ELSE a.title[1]

\* lines 318-325; payload is set exactly when a payload model is
ack_message(a, i, id) ==
    [name |-> message_name(i, id) \o s_ack, title |-> i.ack_title[1], summary |-> None,
     description |-> None,
     payload |-> IF ~IsNone(i.payload_model) THEN Some(schema_ref(i.ack_data_model[1].name))
                 ELSE None,
     tags |-> tag_list(a.tags)]

\* lines 334-343
primary_message(a, i, id) ==
    [name |-> message_name(i, id), title |-> message_title(a, i, id), summary |-> a.summary,
     description |-> i.description,
     payload |-> IF ~IsNone(i.payload_model) THEN Some(schema_ref(i.payload_model[1].name))
                 ELSE None,
     tags |-> tag_list(a.tags)]

\* lines 347-357
operation_of(a, i, id, channel, reply) ==
    [action |-> a.action, channel |-> make_ref(path(<<s_channels, channel>>)),
     title |-> message_title(a, i, id), summary |-> id,
     messages |-> <<message_ref(channel, id)>>, reply |-> reply, tags |-> tag_list(a.tags)]

\* lines 334-359: d2 = the document so far, msgs1 = the channel's messages so far
write_message(d2, a, id, channel, msgs1, i, reply) ==
    IF a.action \notin {s_receive, s_send}
    THEN Outcome("ValidationError",
                 set_messages(d2, channel, Put(msgs1, id, primary_message(a, i, id))), i.st)
    ELSE Outcome("ok",
                 [set_messages(d2, channel, Put(msgs1, id, primary_message(a, i, id)))
                    EXCEPT !.operations = Put(d2.operations, channel \o s_slash \o id,
                                              operation_of(a, i, id, channel, reply))],
                 i.st)

\* lines 311-332: d1 = the document after the payload schema
write_ack(d1, a, id, channel, msgs0, i) ==
    IF IsNone(i.ack_data_model) THEN write_message(d1, a, id, channel, msgs0, i, None)
    ELSE IF i.ack_data_model[1].kind # "model" THEN Outcome("AttributeError", d1, i.st)
    ELSE IF IsNone(i.ack_title)
    THEN Outcome("UnboundLocalError", register_model(d1, i.ack_data_model), i.st)
    ELSE write_message(register_model(d1, i.ack_data_model), a, id, channel,
                       Put(msgs0, id \o s_Ack, ack_message(a, i, id)), i,
                       Some([channel |-> make_ref(path(<<s_channels, channel>>)),
                             messages |-> <<message_ref(channel, id \o s_Ack)>>]))

\* lines 271-310: d0 = the document after the duplicate check, i = what the
\* handler block left
write_payload(d0, a, id, channel, msgs0, i) ==
    IF i.raised THEN Outcome("RecursionError", d0, i.st)
    ELSE IF ~IsNone(i.payload_model) /\ i.payload_model[1].kind # "model"
    THEN Outcome("AttributeError", d0, i.st)
    ELSE write_ack(register_model(d0, i.payload_model), a, id, channel, msgs0, i)

\* lines 266-270: msgs0 = the channel's message table, {} when it was falsy
check_duplicate(d, st, a, id, channel, msgs0) ==
    IF already_registered(msgs0, id)
    THEN Outcome("Exception: Message already in channel", set_messages(d, channel, msgs0), st)
    ELSE write_payload(set_messages(d, channel, msgs0), a, id, channel, msgs0,
                       introspect(a, id, st))

\* AsyncAPIDoc.add_event on document d with interpreter state st; a = the arguments
add_event(d, st, a) ==
    IF sanitize_id(a.channel) \notin DOMAIN d.channels THEN Outcome("KeyError", d, st)
    ELSE check_duplicate(d, st, a, event_id(a.id), sanitize_id(a.channel),
                         IF ~TruthyMap(d.channels[sanitize_id(a.channel)].messages)
                         THEN EmptyMap
                         ELSE d.channels[sanitize_id(a.channel)].messages[1])

----------------------------------------------------------------------------
(* The document as a tree, and pointer resolution.                         *)
(* A node is named by its location: the attribute names and table keys     *)
(* that lead to it from the root.                                          *)

\* the sub-tables default_init seeds in components
SeededKinds == {s_schemas, s_messages}

\* the sub-tables the Components object declares: the seeded ones and the
\* other reusable node tables, which hold None until a table is put there
ComponentKinds == SeededKinds \cup {s_securitySchemes}

\* what is stored at a location: a pydantic object ("model"), a table
\* ("dict"), None ("none"), or nothing at all ("absent")
KindAt(d, loc) ==
    CASE loc = <<>> -> "model"
      [] Len(loc) = 1 /\ loc[1] \in {s_info, s_components} -> "model"
      [] Len(loc) = 1 /\ loc[1] \in {s_servers, s_channels, s_operations} -> "dict"
      [] Len(loc) = 2 /\ loc[1] = s_servers /\ loc[2] \in DOMAIN d.servers -> "model"
      [] Len(loc) = 2 /\ loc[1] = s_channels /\ loc[2] \in DOMAIN d.channels -> "model"
      [] Len(loc) = 2 /\ loc[1] = s_operations /\ loc[2] \in DOMAIN d.operations -> "model"
      [] Len(loc) = 2 /\ loc[1] = s_components /\ loc[2] \in SeededKinds -> "dict"
      [] Len(loc) = 2 /\ loc[1] = s_components /\ loc[2] \in ComponentKinds -> "none"
      [] Len(loc) = 3 /\ loc[1] = s_components /\ loc[2] = s_schemas
            /\ loc[3] \in DOMAIN d.schemas -> "dict"
      [] Len(loc) = 3 /\ loc[1] = s_components /\ loc[2] = s_messages
            /\ loc[3] \in DOMAIN d.messages -> "model"
      [] Len(loc) = 3 /\ loc[1] = s_channels /\ loc[2] \in DOMAIN d.channels
            /\ loc[3] = s_messages ->
            IF IsNone(d.channels[loc[2]].messages) THEN "none" ELSE "dict"
      [] Len(loc) = 4 /\ loc[1] = s_channels /\ loc[2] \in DOMAIN d.channels
            /\ loc[3] = s_messages /\ ~IsNone(d.channels[loc[2]].messages)
            /\ loc[4] \in DOMAIN d.channels[loc[2]].messages[1] -> "model"
      [] OTHER -> "absent"

Node(k, loc) == [kind |-> k, loc |-> loc]

\* names every dict answers to getattr with (a bound method)
DictAttrs == {s_keys}

\* getattr(current, p): None when it raises AttributeError
getattr(d, cur, p) ==
    IF cur.kind = "model" /\ KindAt(d, cur.loc \o <<p>>) # "absent"
    THEN Some(Node(KindAt(d, cur.loc \o <<p>>), cur.loc \o <<p>>))
    ELSE IF cur.kind = "dict" /\ p \in DictAttrs
    THEN Some(Node("method", cur.loc \o <<p>>))
    ELSE None

RECURSIVE walk(_, _, _)
\* the loop `for p in parts: current = getattr(current, p)`
walk(d, cur, parts) ==
    IF parts = <<>> THEN Some(cur)
    ELSE LET nxt == getattr(d, cur, Head(parts))
         IN IF IsNone(nxt) THEN None ELSE walk(d, nxt[1], Tail(parts))

any_ref(ref) == TRUE

\* is the pointer prefix the one resolve_ref supports
supported_ref(ref) == startswith(ref, <<"#", "/">>)

\* AsyncAPIDoc.resolve_ref(obj).  obj.form: "str" a raw string, "ref" a
\* Reference (its pointer in obj.s), "node" any other object (in obj.node).
resolve_ref(d, obj) ==
    IF obj.form = "node" THEN [outcome |-> "ok", node |-> obj.node]
    ELSE IF ~supported_ref(obj.s)
    THEN [outcome |-> "Exception: Unsupported ref", node |-> Node("none", <<>>)]
    ELSE LET parts == split(drop(obj.s, 2), "/")
             found == walk(d, Node("model", <<>>), parts)
         IN IF IsNone(found)
            THEN [outcome |-> "AttributeError", node |-> Node("none", <<>>)]
            ELSE [outcome |-> "ok", node |-> found[1]]

\* the location a well-formed pointer names
PointerLoc(ref) == split(drop(ref, 2), "/")

\* the pointer designates a node stored in the document
Designates(d, ref) == supported_ref(ref) /\ KindAt(d, PointerLoc(ref)) \notin {"absent", "none"}

----------------------------------------------------------------------------
(* The other builder operations.                                           *)

\* the model argument of the legacy calls: a $ref to NoSpec for "NotProvided",
\* the model's own schema (registered under its name) for a model class
model_kind(m) == IF IsNone(m) THEN "none" ELSE m[1].kind

register(sc, m) == IF model_kind(m) = "model" THEN Put(sc, m[1].name, schema_of(m[1])) ELSE sc

payload_of(m) ==
    CASE model_kind(m) = "literal" -> Some(schema_ref(s_NoSpec))
      [] model_kind(m) = "model" -> Some(schema_ref(m[1].name))
      [] OTHER -> None

\* x-ack holds the ack schema itself, not a pointer to it
ack_of(m) ==
    CASE model_kind(m) = "literal" -> Some([ref |-> Some(schema_ref(s_NoSpec)), schema |-> None])
      [] model_kind(m) = "model" -> Some([ref |-> None, schema |-> Some(schema_of(m[1]))])
      [] OTHER -> None

\* the tail of both legacy calls: the lookup of the default channel "/".
\* An empty channels table is falsy and skips it; ChannelItem objects made
\* by add_channel carry no publish/subscribe attribute.
default_channel(d) ==
    IF DOMAIN d.channels = {} THEN "ok"
    ELSE IF s_slash \notin DOMAIN d.channels THEN "KeyError"
    ELSE "AttributeError"

\* AsyncAPIDoc.add_new_receiver(handler, name, message_name, ack_data_model, payload_model)
add_new_receiver(d, a) ==
    LET key == IF IsNone(a.message_name) THEN title(a.name) ELSE a.message_name[1]
        sc == register(register(d.schemas, a.ack_data_model), a.payload_model)
        new_message ==
            [name |-> a.name,
             description |-> IF Truthy(a.handler.doc) THEN a.handler.doc[1] ELSE <<>>,
             xack |-> ack_of(a.ack_data_model), payload |-> payload_of(a.payload_model)]
        d1 == [d EXCEPT !.schemas = sc, !.messages = Put(d.messages, key, new_message)]
    IN [outcome |-> default_channel(d1), doc |-> d1]

\* AsyncAPIDoc.add_new_sender(event, payload_model, description)
add_new_sender(d, a) ==
    LET sc == register(d.schemas, a.payload_model)
        new_message ==
            [name |-> a.event,
             description |-> IF Truthy(a.description) THEN a.description[1] ELSE <<>>,
             xack |-> None, payload |-> payload_of(a.payload_model)]
        d1 == [d EXCEPT !.schemas = sc, !.messages = Put(d.messages, a.event, new_message)]
    IN [outcome |-> default_channel(d1), doc |-> d1]

\* AsyncAPIDoc.add_component(obj, tipe, name): the tables default_init seeded
\* take the entry; a declared sub-table that was not seeded is None, which
\* takes no item; any other name is no attribute of components
add_component(d, a) ==
    CASE a.tipe = s_schemas ->
            [outcome |-> "ok", doc |-> [d EXCEPT !.schemas = Put(d.schemas, a.name, a.obj)],
             ref |-> make_ref(path(<<s_components, a.tipe, a.name>>))]
      [] a.tipe = s_messages ->
            [outcome |-> "ok", doc |-> [d EXCEPT !.messages = Put(d.messages, a.name, a.obj)],
             ref |-> make_ref(path(<<s_components, a.tipe, a.name>>))]
      [] a.tipe \in ComponentKinds \ SeededKinds ->
            [outcome |-> "TypeError", doc |-> d, ref |-> <<>>]
      [] OTHER -> [outcome |-> "AttributeError", doc |-> d, ref |-> <<>>]

\* AsyncAPIDoc.add_global_tag(name, description) on info.tags
add_global_tag_appends(tgs, name, description) ==
    Append(tgs, [name |-> name, description |-> description])

add_global_tag(tgs, name, description) ==
    IF \E i \in 1..Len(tgs) : tgs[i].name = name
    THEN LET k == CHOOSE i \in 1..Len(tgs) :
                      tgs[i].name = name /\ \A j \in 1..(i - 1) : tgs[j].name # name
         IN [tgs EXCEPT ![k].description = description]
    ELSE Append(tgs, [name |-> name, description |-> description])

----------------------------------------------------------------------------
(* The calls of a run.                                                     *)

s_c == <<"c">>
s_n == <<"n">>
s_m == <<"m">>
s_x == <<"x">>

ChannelIds == {s_c, <<"/", "n">>}

\* add_channel("c"), add_channel("c", "a", "T", ..., servers=["BACKEND", "x"]) and
\* add_channel("/n"); the run has a server BACKEND and no server x
ChannelArgs ==
    { [id |-> s_c, address |-> None, title |-> None, summary |-> None,
       description |-> None, servers |-> None],
      [id |-> s_c, address |-> Some(<<"a">>), title |-> Some(<<"T">>),
       summary |-> Some(<<"a summary">>), description |-> Some(<<"a description">>),
       servers |-> Some(<<s_BACKEND, s_x>>)],
      [id |-> <<"/", "n">>, address |-> None, title |-> None, summary |-> None,
       description |-> None, servers |-> None] }

EventIds == {s_on \o s_m, s_m}

Handler(name, doc, hints) == [name |-> name, doc |-> doc, hints |-> hints]

\* def h(text: str) -> bool
h_text_bool == Handler(<<"h">>, Some(<<"a docstring">>),
                       << <<<<"t", "e", "x", "t">>, t_str>>, <<s_return, t_bool>> >>)

\* def g(n: int) -> str
h_n_str == Handler(<<"g">>, None, << <<<<"n">>, t_int>>, <<s_return, t_str>> >>)

\* def k(a: Pt, b: str), with no return annotation
h_no_return == Handler(<<"k">>, None, << <<<<"a">>, Dataclass(c_Point)>>, <<<<"b">>, t_str>> >>)

\* def p(nd: Nd) -> bool
h_cyc_param == Handler(<<"p">>, None,
                       << <<<<"n", "d">>, Dataclass(c_Node)>>, <<s_return, t_bool>> >>)

\* def q(n: int) -> Nd
h_cyc_return == Handler(<<"q">>, None,
                        << <<<<"n">>, t_int>>, <<s_return, Dataclass(c_Node)>> >>)

\* a hand-written pydantic model for a payload
UserPayload ==
    [kind |-> "model", origin |-> "", name |-> <<"U">> \o s_Payload, args |-> <<>>,
     fields |-> << <<<<"u">>, t_int>> >>, uid |-> 0]

\* a hand-written pydantic model for an ack
UserAck ==
    [kind |-> "model", origin |-> "", name |-> <<"U">> \o s_Ack, args |-> <<>>,
     fields |-> << <<<<"o", "k">>, t_bool>> >>, uid |-> 0]

EventArgs(ch, id, h, pm, am, action, tgs) ==
    [channel |-> ch, id |-> id, handler |-> h, title |-> None, name |-> None,
     summary |-> None, description |-> None, tags |-> tgs, ack_data_model |-> am,
     payload_model |-> pm, action |-> action]

EventCalls ==
    UNION { { EventArgs(ch, id, Some(h_text_bool), None, None, s_receive, None),
              EventArgs(ch, id, Some(h_n_str), None, None, s_send, Some(<<<<"t">>>>)),
              EventArgs(ch, id, None, None, None, s_receive, None) }
            : <<ch, id>> \in ChannelIds \X EventIds }

\* the less common calls: an event id that ends in "Ack", a handler without a
\* return annotation, an explicit ack model with and without a handler, and
\* handlers with a parameter or a return type that refers to itself
EdgeEventCalls ==
    UNION { { EventArgs(ch, id, Some(h_text_bool), None, None, s_receive, None),
              EventArgs(ch, id, None, None, None, s_receive, None),
              EventArgs(ch, id, Some(h_no_return), None, None, s_receive, None),
              EventArgs(ch, id, None, None, Some(UserAck), s_receive, None),
              EventArgs(ch, id, Some(h_text_bool), None, Some(UserAck), s_send, None),
              EventArgs(ch, id, Some(h_cyc_param), None, None, s_receive, None),
              EventArgs(ch, id, Some(h_cyc_return), None, None, s_receive, None) }
            : <<ch, id>> \in ChannelIds \X {s_m, s_m \o s_Ack} }

ReceiverCalls ==
    { [handler |-> h_text_bool, name |-> s_m, message_name |-> None,
       ack_data_model |-> Some(NotProvided), payload_model |-> Some(UserPayload)] }

SenderCalls ==
    { [event |-> <<"e">>, payload_model |-> Some(NotProvided),
       description |-> Some(<<"a description">>)] }

ComponentCalls ==
    { [obj |-> schema_of(UserAck), tipe |-> s_schemas, name |-> <<"X">>],
      [obj |-> schema_of(UserAck), tipe |-> s_securitySchemes, name |-> s_x],
      [obj |-> schema_of(UserAck), tipe |-> <<"b", "o", "g", "u", "s">>, name |-> s_x] }

\* the locations of the nodes stored in the document, the root left out
Locations(d) ==
    { <<s_info>>, <<s_servers>>, <<s_channels>>, <<s_operations>>, <<s_components>>,
      <<s_components, s_schemas>>, <<s_components, s_messages>> }
    \cup { <<s_servers, k>> : k \in DOMAIN d.servers }
    \cup { <<s_channels, k>> : k \in DOMAIN d.channels }
    \cup { <<s_operations, k>> : k \in DOMAIN d.operations }
    \cup { <<s_components, s_schemas, k>> : k \in DOMAIN d.schemas }
    \cup { <<s_components, s_messages, k>> : k \in DOMAIN d.messages }
    \cup UNION { IF IsNone(d.channels[c].messages) THEN {}
                 ELSE { <<s_channels, c, s_messages>> }
                      \cup { <<s_channels, c, s_messages, k>> :
                                k \in DOMAIN d.channels[c].messages[1] }
                 : c \in DOMAIN d.channels }

\* pointers to nothing, and strings that are no pointers
OtherPointers ==
    { make_ref(path(<<s_components, s_schemas, s_x>>)),
      make_ref(path(<<s_channels, s_keys>>)),
      path(<<s_components, s_schemas, s_NoSpec>>),
      <<>> }

\* make_ref of every location of the document, the other pointers as
\* Reference and as plain string, and an object that is no pointer
RefArgs(d) ==
    { [form |-> "ref", s |-> make_ref(path(loc)), node |-> Node("none", <<>>)] :
        loc \in Locations(d) }
    \cup { [form |-> f, s |-> p, node |-> Node("none", <<>>)] :
              f \in {"str", "ref"}, p \in OtherPointers }
    \cup { [form |-> "node", s |-> <<>>, node |-> Node("model", <<s_info>>)] }

TheDoc == Doc(servers, channels, schemas, messages, operations)

TheCaches == CacheState(peewee, dc_cache, ref_cache, next_uid)

Call(op, a, outcome, ret) == [op |-> op, a |-> a, outcome |-> outcome, ret |-> ret]

Init ==
    /\ default_init
    /\ peewee = FALSE
    /\ dc_cache = EmptyMap
    /\ ref_cache = EmptyMap
    /\ next_uid = 1
    /\ last = Call("default_init", None, "ok", None)
    /\ calls = [events |-> 0, legacy |-> 0, components |-> 0]
    /\ clean = TRUE
    /\ tag_calls = <<>>
    /\ rewrites = <<>>

AddChannel ==
    \E a \in ChannelArgs :
        LET r == add_channel(channels, a)
        IN /\ channels' = r.channels
           /\ last' = Call("add_channel", a, r.outcome, None)
           /\ clean' = (clean /\ r.outcome = "ok")
           /\ UNCHANGED <<servers, operations, schemas, messages, tags, cache_vars,
                          calls, tag_calls, rewrites>>

AddEvent ==
    \E a \in EventCalls :
        LET r == add_event(TheDoc, TheCaches, a)
            counted == r.outcome \notin {"KeyError", "Exception: Message already in channel"}
        IN /\ counted => calls.events < MaxEvents
           /\ channels' = r.doc.channels
           /\ schemas' = r.doc.schemas
           /\ operations' = r.doc.operations
           /\ dc_cache' = r.st.dc
           /\ ref_cache' = r.st.rf
           /\ next_uid' = r.st.next
           /\ last' = Call("add_event", a, r.outcome, None)
           /\ calls' = IF counted THEN [calls EXCEPT !.events = @ + 1] ELSE calls
           /\ clean' = (clean /\ r.outcome = "ok")
           /\ UNCHANGED <<servers, messages, tags, peewee, tag_calls, rewrites>>

AddNewReceiver ==
    \E a \in ReceiverCalls :
        LET r == add_new_receiver(TheDoc, a)
        IN /\ calls.legacy < MaxLegacy
           /\ schemas' = r.doc.schemas
           /\ messages' = r.doc.messages
           /\ last' = Call("add_new_receiver", a, r.outcome, None)
           /\ calls' = [calls EXCEPT !.legacy = @ + 1]
           /\ clean' = (clean /\ r.outcome = "ok")
           /\ UNCHANGED <<servers, channels, operations, tags, cache_vars, tag_calls, rewrites>>

AddNewSender ==
    \E a \in SenderCalls :
        LET r == add_new_sender(TheDoc, a)
        IN /\ calls.legacy < MaxLegacy
           /\ schemas' = r.doc.schemas
           /\ messages' = r.doc.messages
           /\ last' = Call("add_new_sender", a, r.outcome, None)
           /\ calls' = [calls EXCEPT !.legacy = @ + 1]
           /\ clean' = (clean /\ r.outcome = "ok")
           /\ UNCHANGED <<servers, channels, operations, tags, cache_vars, tag_calls, rewrites>>

AddComponent ==
    \E a \in ComponentCalls :
        LET r == add_component(TheDoc, a)
        IN /\ r.outcome = "ok" => calls.components < MaxComponents
           /\ schemas' = r.doc.schemas
           /\ messages' = r.doc.messages
           /\ last' = Call("add_component", a, r.outcome, r.ref)
           /\ calls' = IF r.outcome = "ok" THEN [calls EXCEPT !.components = @ + 1] ELSE calls
           /\ clean' = (clean /\ r.outcome = "ok")
           /\ UNCHANGED <<servers, channels, operations, tags, cache_vars, tag_calls, rewrites>>

ResolveRef ==
    \E a \in RefArgs(TheDoc) :
        LET r == resolve_ref(TheDoc, a)
        IN /\ last' = Call("resolve_ref", a, r.outcome, r.node)
           /\ UNCHANGED <<servers, channels, operations, schemas, messages, tags, cache_vars,
                          calls, clean, tag_calls, rewrites>>

Next == AddChannel \/ AddEvent \/ AddNewReceiver \/ AddNewSender \/ AddComponent \/ ResolveRef

Spec == Init /\ [][Next]_vars

----------------------------------------------------------------------------
(* add_channel and add_event with the less common calls.                   *)

AddEdgeEvent ==
    \E a \in EdgeEventCalls :
        LET r == add_event(TheDoc, TheCaches, a)
            counted == r.outcome \notin {"KeyError", "Exception: Message already in channel"}
        IN /\ counted => calls.events < MaxEvents
           /\ channels' = r.doc.channels
           /\ schemas' = r.doc.schemas
           /\ operations' = r.doc.operations
           /\ dc_cache' = r.st.dc
           /\ ref_cache' = r.st.rf
           /\ next_uid' = r.st.next
           /\ last' = Call("add_event", a, r.outcome, None)
           /\ calls' = IF counted THEN [calls EXCEPT !.events = @ + 1] ELSE calls
           /\ clean' = (clean /\ r.outcome = "ok")
           /\ UNCHANGED <<servers, messages, tags, peewee, tag_calls, rewrites>>

NextEdge == AddChannel \/ AddEdgeEvent

SpecEdge == Init /\ [][NextEdge]_vars

----------------------------------------------------------------------------
(* add_global_tag on its own.                                              *)

TagNames == {<<"x">>, <<"y">>, <<"z">>}

TagDescriptions == {None, Some(<<"d1">>), Some(<<"d2">>)}

AddGlobalTag ==
    \E name \in TagNames, description \in TagDescriptions :
        /\ Len(tag_calls) < MaxTagCalls
        /\ tags' = add_global_tag(tags, name, description)
        /\ tag_calls' = Append(tag_calls, [name |-> name, description |-> description])
        /\ last' = Call("add_global_tag", [name |-> name, description |-> description],
                        "ok", None)
        /\ UNCHANGED <<servers, channels, operations, schemas, messages, cache_vars,
                       calls, clean, rewrites>>

SpecTags == Init /\ [][AddGlobalTag]_vars

----------------------------------------------------------------------------
(* The type rewriter on its own: a process that calls rewrite_type, with   *)
(* or without peewee installed.                                            *)

InitRewrite ==
    /\ default_init
    /\ peewee \in BOOLEAN
    /\ dc_cache = EmptyMap
    /\ ref_cache = EmptyMap
    /\ next_uid = 1
    /\ last = Call("default_init", None, "ok", None)
    /\ calls = [events |-> 0, legacy |-> 0, components |-> 0]
    /\ clean = TRUE
    /\ tag_calls = <<>>
    /\ rewrites = <<>>

\* the source types of the run; peewee models exist only where peewee does
SourceTypes(pw) ==
    { t_int, Dataclass(c_Point), Dataclass(c_Line), Dataclass(c_Node), Dataclass(c_Box),
      Generic("list", <<Dataclass(c_Point)>>),
      Generic("Union", <<Dataclass(c_Point), t_None>>),
      Generic("tuple", <<Dataclass(c_Point), t_Ellipsis>>),
      Generic("dict", <<t_str, Dataclass(c_Line)>>),
      Generic("frozenset", <<Dataclass(c_Point)>>) }
    \cup (IF pw THEN {Peewee(c_User), Generic("set", <<Peewee(c_User)>>)} ELSE {})

Rewrite ==
    \E tp \in SourceTypes(peewee) :
        LET r == rewrite_type(tp, TheCaches, 1)
        IN /\ Len(rewrites) < MaxRewrites
           /\ dc_cache' = r.st.dc
           /\ ref_cache' = r.st.rf
           /\ next_uid' = r.st.next
           /\ rewrites' = Append(rewrites, [tp |-> tp, ok |-> r.ok, result |-> r.tp])
           /\ last' = Call("rewrite_type", tp, IF r.ok THEN "ok" ELSE "RecursionError", r.tp)
           /\ UNCHANGED <<servers, channels, operations, schemas, messages, tags, peewee,
                          calls, clean, tag_calls>>

SpecRewrite == InitRewrite /\ [][Rewrite]_vars

----------------------------------------------------------------------------
(* Properties of the builder and of pointer resolution.                    *)

\* C1: add_channel with an id whose sanitized form is already a key of the
\* channels table raises the duplicate-channel error and leaves the channels
\* table exactly as it was.
C1_DuplicateChannelRejected ==
    [][ (last'.op = "add_channel" /\ remove(last'.a.id, "/") \in DOMAIN channels)
        => (last'.outcome = "Exception: Channel already exists" /\ channels' = channels) ]_vars

C1_Witness ==
    /\ last.op = "add_channel"
    /\ last.a.id = <<"/", "n">>
    /\ last.outcome = "Exception: Channel already exists"
    /\ s_n \in DOMAIN channels

\* the key add_event files an event under: the id without its "on_" prefix
NormalId(id) == IF startswith(lower(id), s_on) THEN SubSeq(id, 4, Len(id)) ELSE id

IsRegistered(chs, c, e) ==
    /\ c \in DOMAIN chs
    /\ ~IsNone(chs[c].messages)
    /\ e \in DOMAIN chs[c].messages[1]

\* C2: add_event for an event that, after normalisation of id and channel, is
\* already in the channel's message table raises the duplicate-id error and
\* leaves components.schemas, every message table and the operations unchanged.
C2_DuplicateEventRejected ==
    [][ (last'.op = "add_event"
         /\ IsRegistered(channels, remove(last'.a.channel, "/"), NormalId(last'.a.id)))
        => (/\ last'.outcome = "Exception: Message already in channel"
            /\ schemas' = schemas
            /\ channels' = channels
            /\ operations' = operations
            /\ messages' = messages) ]_vars

C2_Witness ==
    /\ last.op = "add_event"
    /\ last.a.id = s_on \o s_m
    /\ last.a.handler = Some(h_n_str)
    /\ last.outcome = "Exception: Message already in channel"
    /\ <<"M">> \o s_Payload \in DOMAIN schemas
    /\ schemas[<<"M">> \o s_Payload].properties = << <<<<"t", "e", "x", "t">>, t_str>> >>

\* a handler with at least one annotated parameter and a non-None return type
FullHandler(h) ==
    /\ ~IsNone(h)
    /\ Len(h[1].hints) >= 2
    /\ h[1].hints[Len(h[1].hints)][1] = s_return
    /\ h[1].hints[Len(h[1].hints)][2] # t_None

Pointer(segs) == <<"#">> \o path(segs)

\* the document holds the request/ack wiring of event e on channel c
Wired(chs, scs, ops, c, e, action) ==
    LET E == remove(title(e), "_")
        opid == c \o <<"/">> \o e
    IN /\ E \o s_Payload \in DOMAIN scs
       /\ E \o s_Ack \in DOMAIN scs
       /\ { scs[E \o s_Ack].properties[i][1] : i \in 1..Len(scs[E \o s_Ack].properties) }
              = {s_success, s_error, s_data}
       /\ Len(scs[E \o s_Ack].properties) = 3
       /\ IsRegistered(chs, c, e)
       /\ IsRegistered(chs, c, e \o s_Ack)
       /\ chs[c].messages[1][e].payload = Some(Pointer(<<s_components, s_schemas, E \o s_Payload>>))
       /\ chs[c].messages[1][e \o s_Ack].payload
              = Some(Pointer(<<s_components, s_schemas, E \o s_Ack>>))
       /\ opid \in DOMAIN ops
       /\ ops[opid].action = action
       /\ ops[opid].channel = Pointer(<<s_channels, c>>)
       /\ ops[opid].messages = <<Pointer(<<s_channels, c, s_messages, e>>)>>
       /\ ops[opid].reply = Some([channel |-> Pointer(<<s_channels, c>>),
                                  messages |-> <<Pointer(<<s_channels, c, s_messages,
                                                           e \o s_Ack>>)>>])

C4_RoundTrip ==
    \A loc \in Locations(TheDoc) :
        (last.op = "resolve_ref" /\ last.a.form = "ref" /\ last.a.s = Pointer(loc))
        => (last.outcome = "ok" /\ last.ret = Node(KindAt(TheDoc, loc), loc))

\* C5: resolve_ref of a '#/' pointer with a segment absent from the document
\* fails (it returns nothing).
C5_BrokenReference ==
    (/\ last.op = "resolve_ref"
     /\ last.a.form \in {"str", "ref"}
     /\ startswith(last.a.s, <<"#", "/">>)
     /\ KindAt(TheDoc, split(SubSeq(last.a.s, 3, Len(last.a.s)), "/")) = "absent")
    => last.outcome = "AttributeError"

\* C6: resolve_ref of a string or Reference whose pointer does not start with
\* '#/' fails as malformed, never as broken, and leaves the document as it was.
C6_MalformedReference ==
    [][ (/\ last'.op = "resolve_ref"
         /\ last'.a.form \in {"str", "ref"}
         /\ ~startswith(last'.a.s, <<"#", "/">>))
        => (/\ last'.outcome = "Exception: Unsupported ref"
            /\ UNCHANGED <<servers, channels, operations, schemas, messages, tags>>) ]_vars

C6_Witness ==
    /\ last.op = "resolve_ref"
    /\ last.a.form = "ref"
    /\ last.a.s = path(<<s_components, s_schemas, s_NoSpec>>)
    /\ last.outcome = "Exception: Unsupported ref"

\* C7: once components.schemas[n] is set, no add_event, add_new_receiver or
\* add_new_sender call replaces it with a different schema.
C7_SchemasWriteOnce ==
    [][ last'.op \in {"add_event", "add_new_receiver", "add_new_sender"}
        => \A n \in DOMAIN schemas : n \in DOMAIN schemas' /\ schemas'[n] = schemas[n] ]_vars

\* every pointer embedded in the document
EmbeddedPointers ==
    UNION { IF IsNone(channels[c].servers) THEN {}
            ELSE { channels[c].servers[1][i] : i \in 1..Len(channels[c].servers[1]) }
            : c \in DOMAIN channels }
    \cup UNION { IF IsNone(channels[c].messages) THEN {}
                 ELSE UNION { IF IsNone(channels[c].messages[1][m].payload) THEN {}
                              ELSE { channels[c].messages[1][m].payload[1] }
                              : m \in DOMAIN channels[c].messages[1] }
                 : c \in DOMAIN channels }
    \cup UNION { { operations[o].channel }
                 \cup { operations[o].messages[i] : i \in 1..Len(operations[o].messages) }
                 \cup (IF IsNone(operations[o].reply) THEN {}
                       ELSE { operations[o].reply[1].channel }
                            \cup { operations[o].reply[1].messages[i] :
                                      i \in 1..Len(operations[o].reply[1].messages) })
                 : o \in DOMAIN operations }
    \cup UNION { IF IsNone(messages[m].payload) THEN {} ELSE { messages[m].payload[1] }
                 : m \in DOMAIN messages }

\* C8: while every builder call so far succeeded, every pointer embedded in
\* the document designates a node stored under components, channels or servers.
C8_ReferenceIntegrity ==
    clean => \A p \in EmbeddedPointers : Designates(TheDoc, p)

----------------------------------------------------------------------------
(* Properties of add_global_tag and of the type rewriter.                  *)

RECURSIVE FirstSeen(_)
\* the names of a call history, each once, in the order they first appear
FirstSeen(h) ==
    IF h = <<>> THEN <<>>
    ELSE LET before == FirstSeen(SubSeq(h, 1, Len(h) - 1))
             n == h[Len(h)].name
         IN IF \E i \in 1..Len(before) : before[i] = n THEN before ELSE Append(before, n)

\* the description of the most recent call for name n
LatestDescription(h, n) ==
    h[CHOOSE i \in 1..Len(h) : h[i].name = n /\ \A j \in (i + 1)..Len(h) : h[j].name # n]
        .description

\* C9: after any sequence of add_global_tag calls the tag list holds one tag
\* per name called, in order of first insertion, each with the description of
\* the most recent call for its name.
C9_TagUpsert ==
    LET names == FirstSeen(tag_calls)
    IN tags = [i \in 1..Len(names) |->
                 [name |-> names[i], description |-> LatestDescription(tag_calls, names[i])]]

C9_Witness ==
    /\ Len(tag_calls) = 3
    /\ tag_calls[1] = [name |-> <<"x">>, description |-> Some(<<"d1">>)]
    /\ tag_calls[2].name = <<"y">>
    /\ tag_calls[3] = [name |-> <<"x">>, description |-> Some(<<"d2">>)]
    /\ Len(tags) = 2

RECURSIVE Synthesized(_)
\* the classes made by the rewriter that occur in a type
Synthesized(t) ==
    (IF t.kind \in {"model", "uuidref"} THEN {t} ELSE {})
    \cup UNION { Synthesized(t.args[i]) : i \in 1..Len(t.args) }
    \cup UNION { Synthesized(t.fields[i][2]) : i \in 1..Len(t.fields) }

AllSynthesized ==
    UNION { Synthesized(rewrites[i].result) : i \in { k \in 1..Len(rewrites) : rewrites[k].ok } }
    \cup UNION { Synthesized(dc_cache[c]) : c \in DOMAIN dc_cache }
    \cup UNION { Synthesized(ref_cache[c]) : c \in DOMAIN ref_cache }

RewriteStable ==
    /\ \A i, j \in 1..Len(rewrites) :
          (rewrites[i].tp = rewrites[j].tp /\ rewrites[i].ok /\ rewrites[j].ok)
          => rewrites[i].result = rewrites[j].result
    /\ \A m1, m2 \in AllSynthesized : m1.name = m2.name => m1 = m2

CacheKept ==
    /\ \A c \in DOMAIN dc_cache : c \in DOMAIN dc_cache' /\ dc_cache'[c] = dc_cache[c]
    /\ \A c \in DOMAIN ref_cache : c \in DOMAIN ref_cache' /\ ref_cache'[c] = ref_cache[c]

\* C10: every rewrite_type call that returns for a source type returns the
\* same schema type; a record or identifier type is synthesized once, whatever
\* it is nested in, and a cache entry once written is never replaced.
C10_RewriteIdentityStable == [](RewriteStable) /\ [][CacheKept]_vars

C10_Witness ==
    /\ Len(rewrites) = 3
    /\ rewrites[1].tp = Generic("list", <<Dataclass(c_Point)>>)
    /\ rewrites[2].tp = Dataclass(c_Line)
    /\ rewrites[3].tp = Dataclass(c_Point)
    /\ rewrites[3].ok
    /\ rewrites[3].result = rewrites[1].result.args[1]
    /\ rewrites[3].result = rewrites[2].result.fields[1][2]

Containers == {"list", "set", "dict", "tuple"}

RECURSIVE Shape(_)
\* the type a field type is to become: a record type becomes its one schema
\* type, a container or union keeps its shape over the types its arguments
\* become, anything else stays as it is
Shape(t) ==
    CASE t.kind = "dataclass" /\ t.name \in DOMAIN dc_cache -> dc_cache[t.name]
      [] t.kind = "peewee" /\ t.name \in DOMAIN ref_cache -> ref_cache[t.name]
      [] t.kind = "generic" /\ t.origin \in Containers \cup {"Union"} ->
            Generic(t.origin, [i \in 1..Len(t.args) |-> Shape(t.args[i])])
      [] OTHER -> t

\* M is the schema type of record type c: its name, and field for field the
\* declared names with the types the declared types become
FieldExact(c, M) ==
    /\ M.kind = "model"
    /\ M.name = c \o s_Schema
    /\ Len(M.fields) = Len(DataclassHints(c))
    /\ \A k \in 1..Len(M.fields) :
          /\ M.fields[k][1] = DataclassHints(c)[k][1]
          /\ M.fields[k][2] = Shape(DataclassHints(c)[k][2])

\* C11: the schema type rewrite_type returns for a record type is named
\* <TypeName>Schema and has exactly the record's fields, each with the
\* rewritten type of the record's field: containers and unions rebuilt over
\* rewritten arguments, leaf types unchanged.
C11_RecordFieldExact ==
    /\ \A i \in 1..Len(rewrites) :
          (rewrites[i].tp.kind = "dataclass" /\ rewrites[i].ok)
          => FieldExact(rewrites[i].tp.name, rewrites[i].result)
    /\ \A c \in DOMAIN dc_cache : FieldExact(c, dc_cache[c])

C11_Witness ==
    /\ Len(rewrites) >= 1
    /\ rewrites[Len(rewrites)].tp = Dataclass(c_Box)
    /\ rewrites[Len(rewrites)].ok
    /\ Len(rewrites[Len(rewrites)].result.fields) = 4
    /\ rewrites[Len(rewrites)].result.fields[2][2].origin = "tuple"
    /\ rewrites[Len(rewrites)].result.fields[2][2].args[1].kind = "model"

\* C12: every rewrite_type call returns a schema type, whatever the type
\* descriptor, a record type that refers back to itself included.
C12_RewriteTerminates ==
    \A i \in 1..Len(rewrites) : rewrites[i].ok

----------------------------------------------------------------------------
(* Properties of add_component, of add_event's handler introspection and   *)
(* of the legacy calls.                                                    *)

\* the node is stored in components.<kind> under the name
StoredComponent(kind, name, obj) ==
    CASE kind = s_schemas -> name \in DOMAIN schemas /\ schemas[name] = obj
      [] kind = s_messages -> name \in DOMAIN messages /\ messages[name] = obj
      [] OTHER -> FALSE

\* C13: add_component with a kind that is a sub-table of components, seeded
\* by default_init or not, succeeds, stores the node under the name and
\* returns the pointer '#/components/<kind>/<name>'.
C13_AddComponentRecognized ==
    (last.op = "add_component" /\ last.a.tipe \in ComponentKinds)
    => (/\ last.outcome = "ok"
        /\ last.ret = Pointer(<<s_components, last.a.tipe, last.a.name>>)
        /\ StoredComponent(last.a.tipe, last.a.name, last.a.obj))

\* the declared parameters of a handler: its hints without the return type
DeclaredParams(h) == SelectSeq(h.hints, LAMBDA x : x[1] # s_return)

\* C14: after an add_event call with a handler and no explicit payload model
\* that completes, schema <E>Payload has one field per annotated parameter of
\* the handler, with the rewritten parameter type, whether or not the handler
\* declares a return type.
C14_PayloadMirrorsParams ==
    (/\ last.op = "add_event" /\ last.outcome = "ok"
     /\ ~IsNone(last.a.handler) /\ IsNone(last.a.payload_model))
    => LET P == remove(title(NormalId(last.a.id)), "_") \o s_Payload
           params == DeclaredParams(last.a.handler[1])
       IN /\ P \in DOMAIN schemas
          /\ schemas[P].properties =
                 [k \in 1..Len(params) |-> <<params[k][1], Shape(params[k][2])>>]

\* a hint of the handler is a type whose rewriting fails
RewriteFails(h) == \E k \in 1..Len(h.hints) : h.hints[k][2] = Dataclass(c_Node)

\* the call is to leave an ack schema: an explicit ack model, or a handler
\* with a return type other than None
AckExpected(a) ==
    \/ ~IsNone(a.ack_data_model)
    \/ (~IsNone(a.handler) /\ HasReturn(a.handler[1].hints)
          /\ ReturnType(a.handler[1].hints) # t_None)

\* the add_event call of this step is for an existing channel and a fresh
\* id, with no hint whose rewriting fails
FreshEvent ==
    /\ last'.op = "add_event"
    /\ remove(last'.a.channel, "/") \in DOMAIN channels
    /\ ~IsRegistered(channels, remove(last'.a.channel, "/"), NormalId(last'.a.id))
    /\ IsNone(last'.a.handler) \/ ~RewriteFails(last'.a.handler[1])

\* C15: an add_event call that has an ack schema, synthesized from the return
\* type or given as ack_data_model, with or without a handler, completes and
\* leaves the ack message in the channel and an operation whose reply points
\* at the channel with the ack message as its only message.
C15_CompanionAck ==
    [][ (FreshEvent /\ AckExpected(last'.a))
        => LET c == remove(last'.a.channel, "/")
               e == NormalId(last'.a.id)
           IN /\ last'.outcome = "ok"
              /\ IsRegistered(channels', c, e \o s_Ack)
              /\ (c \o s_slash \o e) \in DOMAIN operations'
              /\ operations'[c \o s_slash \o e].reply =
                     Some([channel |-> Pointer(<<s_channels, c>>),
                           messages |-> <<Pointer(<<s_channels, c, s_messages,
                                                    e \o s_Ack>>)>>]) ]_vars

\* C16: an add_event call whose handler has a parameter type or a return
\* type whose rewriting fails still completes: the primary message is in the
\* channel and the operation <channel>/<id> is in the operations table.
C16_IntrospectionNonFatal ==
    [][ (/\ last'.op = "add_event"
         /\ remove(last'.a.channel, "/") \in DOMAIN channels
         /\ ~IsRegistered(channels, remove(last'.a.channel, "/"), NormalId(last'.a.id))
         /\ ~IsNone(last'.a.handler) /\ RewriteFails(last'.a.handler[1])
         /\ IsNone(last'.a.ack_data_model))
        => LET c == remove(last'.a.channel, "/")
               e == NormalId(last'.a.id)
           IN /\ last'.outcome = "ok"
              /\ IsRegistered(channels', c, e)
              /\ (c \o s_slash \o e) \in DOMAIN operations' ]_vars

\* C17: no add_event call replaces an entry of a channel's message table: a
\* message stored under a key stays as it is.
C17_MessagesInsertOnly ==
    [][ last'.op = "add_event"
        => \A c \in DOMAIN channels :
              ~IsNone(channels[c].messages)
              => \A k \in DOMAIN channels[c].messages[1] :
                    /\ IsRegistered(channels', c, k)
                    /\ channels'[c].messages[1][k] = channels[c].messages[1][k] ]_vars

\* C18: in every state the builder reaches, add_new_receiver and
\* add_new_sender complete without error and leave the message in
\* components.messages under its message name (name.title() for a receiver,
\* the event name for a sender).
C18_LegacyCompletes ==
    /\ last.op = "add_new_receiver"
        => (/\ last.outcome = "ok"
            /\ title(last.a.name) \in DOMAIN messages
            /\ messages[title(last.a.name)].name = last.a.name)
    /\ last.op = "add_new_sender"
        => (/\ last.outcome = "ok"
            /\ last.a.event \in DOMAIN messages
            /\ messages[last.a.event].name = last.a.event)

====
